---- MODULE Spec2Model ----
(***************************************************************************)
(* Model of bigqueue (src/src/bigqueue.rs, src/src/lib.rs): a persistent   *)
(* FIFO byte queue stored in fixed-size memory-mapped arena files plus an  *)
(* index file of four little-endian u64 words.                             *)
(*                                                                         *)
(* The queue object is modelled by one variable per field of BigQueue; the *)
(* directory is modelled by index_file (the bytes of index.dat, <<>> when  *)
(* the file does not exist) and arenas (a function from the ids of the     *)
(* existing arena_<N>.dat files to their bytes).  An Arena handle          *)
(* (Rc<UnsafeCell<Arena>>) is a record [aid, by]: the file it maps and     *)
(* which side allocated the Rc.  A mapping is MAP_SHARED, so a read or a   *)
(* write through a handle reads or writes arenas[handle.aid].              *)
(*                                                                         *)
(* The methods of BigQueue are operators over a record s holding the       *)
(* fields, so that a method that calls other methods is their composition. *)
(***************************************************************************)
EXTENDS Integers, Sequences, FiniteSets, TLC

\* ------------------------------------------------------------------ bounds
ArenaSize == 10          \* config.arena_size of the modelled queue (> 8)
MaxPush   == 2           \* pushes per behaviour of the direct-API model
MaxPushLife == 2         \* pushes since the last reset in the lifecycle model
NRecords  == 2           \* records the producer of a channel enqueues
MaxRoll   == 4           \* equal-sized records pushed in a rollover run
MaxPushDeep == 3         \* pushes per behaviour of the longer sequential runs
MaxInMem  == 4           \* largest config.max_arenas_in_mem a queue is opened with

\* ------------------------------------------------------- program constants
INDEX_FILE_SIZE == 32
CACHE_CAPACITY  == 3
MIN_ARENAS_MAX_IN_MEM == 3

\* Stand-in for every decoded u64 that is >= 2^30; the model never needs
\* the exact value of such a length, only its remainder modulo ArenaSize.
Huge == 1024 * 1024 * 1024

\* --------------------------------------------------------------- ByteCodec
Zeros(n) == [i \in 1..n |-> 0]

Pow256(k) == IF k = 0 THEN 1 ELSE IF k = 1 THEN 256
             ELSE IF k = 2 THEN 65536 ELSE 16777216

\* LittleEndian::write_u64: byte i (1-based) is (x / 256^(i-1)) mod 256.
\* Every value the model encodes is below 2^30, so bytes 5..8 are 0.
transform_u64_to_array_of_u8(x) ==
    [i \in 1..8 |-> IF i <= 4 THEN (x \div Pow256(i - 1)) % 256 ELSE 0]

\* LittleEndian::read_u64, exact below 2^30, Huge otherwise.
transform_array_of_u8_to_u64(x) ==
    IF x[5] = 0 /\ x[6] = 0 /\ x[7] = 0 /\ x[8] = 0 /\ x[4] < 64
    THEN x[1] + 256 * x[2] + 65536 * x[3] + 16777216 * x[4]
    ELSE Huge

\* The decoded u64 modulo m, computed bytewise so that it is exact for
\* every 8-byte word (256^k mod m by repeated multiplication).
RECURSIVE PowMod(_, _)
PowMod(k, m) == IF k = 0 THEN 1 % m ELSE (PowMod(k - 1, m) * 256) % m

RECURSIVE U64ModFrom(_, _, _)
U64ModFrom(x, i, m) ==
    IF i > 8 THEN 0
    ELSE (x[i] * PowMod(i - 1, m) + U64ModFrom(x, i + 1, m)) % m

U64Mod(x, m) == U64ModFrom(x, 1, m)

Slice(region, start, end) == [i \in 1..(end - start) |-> region[start + i]]

\* mmap.get(start..end): Some iff the range lies inside the region
InRange(region, start, end) == start <= end /\ end <= Len(region)

\* write_bytes(mmap, offset, v): copy v to [offset, offset + len)
WriteRegion(region, offset, v) ==
    [i \in 1..Len(region) |->
        IF i > offset /\ i <= offset + Len(v) THEN v[i - offset] ELSE region[i]]

\* write_u64(mmap, offset, v)
write_u64(region, offset, v) ==
    IF InRange(region, offset, offset + 8)
    THEN [ok |-> TRUE,
          region |-> WriteRegion(region, offset, transform_u64_to_array_of_u8(v))]
    ELSE [ok |-> FALSE, region |-> region]

\* write_bytes(mmap, offset, v)
write_bytes_region(region, offset, v) ==
    IF InRange(region, offset, offset + Len(v))
    THEN [ok |-> TRUE, region |-> WriteRegion(region, offset, v)]
    ELSE [ok |-> FALSE, region |-> region]

\* read_u64(mmap, offset): the decoded value (capped at Huge) together with
\* its exact remainder modulo ArenaSize
read_u64(region, offset) ==
    IF InRange(region, offset, offset + 8)
    THEN LET w == Slice(region, offset, offset + 8)
         IN  [some |-> TRUE,
              val  |-> transform_array_of_u8_to_u64(w),
              rem  |-> U64Mod(w, ArenaSize)]
    ELSE [some |-> FALSE, val |-> 0, rem |-> 0]

\* ------------------------------------------------------------------- Index
\* Index::new -> Arena::new(index_path, INDEX_FILE_SIZE): create the file
\* zero-filled when it is absent, keep its bytes otherwise.
Index_new(file) == IF file = <<>> THEN Zeros(INDEX_FILE_SIZE) ELSE file

read_u64_at_windows(file, win) == read_u64(file, win * 8)

\* write_u64_at_windows that takes the window number as a byte offset
write_u64_at_windows_unscaled(file, win, v) == write_u64(file, win, v).region

write_u64_at_windows(file, win, v) == write_u64(file, win * 8, v).region

get_head_tuple(file) ==
    <<read_u64_at_windows(file, 0).val, read_u64_at_windows(file, 1).val>>

get_tail_tuple(file) ==
    <<read_u64_at_windows(file, 2).val, read_u64_at_windows(file, 3).val>>

\* Index::set_head that writes the offset to window 2
Index_set_head_overlapping(file, aid, offset) ==
    write_u64_at_windows(write_u64_at_windows(file, 0, aid), 2, offset)

Index_set_head(file, aid, offset) ==
    write_u64_at_windows(write_u64_at_windows(file, 0, aid), 1, offset)

\* Index::set_tail that writes the offset to window 2 and the aid to window 3
Index_set_tail_swapped(file, aid, offset) ==
    write_u64_at_windows(write_u64_at_windows(file, 3, aid), 2, offset)

Index_set_tail(file, aid, offset) ==
    write_u64_at_windows(write_u64_at_windows(file, 2, aid), 3, offset)

\* ------------------------------------------------------------------- Arena
\* Arena::new(path, size): open with create(true), set_len(size), map.
\* A new file is zero-filled; an existing file of that size is unchanged.
Arena_new(files, aid) ==
    IF aid \in DOMAIN files THEN files ELSE files @@ (aid :> Zeros(ArenaSize))

Handle(aid, by) == [aid |-> aid, by |-> by]
NoHandle == Handle(0 - 1, "none")

\* ---------------------------------------------------------------- LruCache
\* The cache is the sequence of its handles, most recently used first; the
\* key of an entry is the aid of its handle.
CacheHas(cache, aid) == \E i \in 1..Len(cache) : cache[i].aid = aid

CacheGet(cache, aid) ==
    cache[CHOOSE i \in 1..Len(cache) : cache[i].aid = aid]

\* LruCache::pop(&aid)
CachePop(cache, aid) == SelectSeq(cache, LAMBDA h : h.aid # aid)

\* LruCache::put(aid, handle): replace and refresh an existing key, else
\* evict the least recently used entry of a full cache, then insert.
CachePut(cache, h) ==
    IF CacheHas(cache, h.aid) THEN <<h>> \o CachePop(cache, h.aid)
    ELSE IF Len(cache) >= CACHE_CAPACITY
         THEN <<h>> \o SubSeq(cache, 1, CACHE_CAPACITY - 1)
         ELSE <<h>> \o cache

\* ------------------------------------------------- BigQueue: page flipping
\* s is the record of the fields of BigQueue plus the directory; s.peek_head
\* is the local `head` of peek (NoHandle outside peek), s.panic is set when a
\* panic (expect/unwrap) was hit, s.exist when a head flip returned
\* Err(Exist), s.nflip counts the head flips of the
\* operation in progress.
HeadMap(s) == s.arenas[s.q_head.aid]
TailMap(s) == s.arenas[s.q_tail.aid]

\* set_tail that forgets to advance tail_aid
set_tail_keeps_aid(s, id, a) == [s EXCEPT !.q_tail = a]

set_tail(s, id, a) == [s EXCEPT !.q_tail = a, !.tail_aid = id]

set_head(s, id, a) == [s EXCEPT !.q_head = a, !.head_aid = id]

\* change_head that forgets to restore head_aid
change_head_keeps_aid(s, id, a) == [s EXCEPT !.q_head = a]

change_head(s, id, a) == [s EXCEPT !.head_aid = id, !.q_head = a]

\* Rc::try_unwrap succeeds iff no other Rc to the same allocation is alive
UniquelyOwned(s, a) == a # s.q_head /\ a # s.q_tail /\ a # s.peek_head

\* load_arena(aid) inside flip_head_page_to: Err(Exist) when the file is
\* missing, and then the head is left as it was.
flip_head_page_to(s, aid) ==
    LET hit == CacheHas(s.cache, aid)
        s1  == [s EXCEPT !.cache = CachePop(s.cache, aid)]
    IN  IF hit /\ UniquelyOwned(s, CacheGet(s.cache, aid))
        THEN [ok |-> TRUE,
              s  |-> [set_head(s1, aid, Handle(aid, "head"))
                        EXCEPT !.nflip = s.nflip + 1]]
        ELSE IF aid \notin DOMAIN s.arenas
             THEN [ok |-> FALSE, s |-> [s1 EXCEPT !.exist = TRUE]]
             ELSE [ok |-> TRUE,
                   s  |-> [set_head(s1, aid, Handle(aid, "head"))
                             EXCEPT !.nflip = s.nflip + 1]]

\* flip_tail_page_forward that moves the tail two arenas on
flip_tail_page_forward_skips(s) ==
    LET old_aid == s.tail_aid
        s1      == [s EXCEPT !.cache = CachePut(s.cache, s.q_tail)]
        aid     == 2 + old_aid
        s2      == [s1 EXCEPT !.arenas = Arena_new(s1.arenas, aid)]
    IN  set_tail(s2, aid, Handle(aid, "tail"))

\* open_arena(aid) creates the file when it is missing
flip_tail_page_forward(s) ==
    LET old_aid == s.tail_aid
        s1      == [s EXCEPT !.cache = CachePut(s.cache, s.q_tail)]
        aid     == 1 + old_aid
        s2      == [s1 EXCEPT !.arenas = Arena_new(s1.arenas, aid)]
    IN  set_tail(s2, aid, Handle(aid, "tail"))

\* ------------------------------------------------- BigQueue: write path
\* Arena::write_u64_at through q_tail; write_length ignores its Result
TailWriteU64(s, offset, v) ==
    [s EXCEPT !.arenas[s.q_tail.aid] = write_u64(TailMap(s), offset, v).region]

\* write_length that does not roll the tail before a word that does not fit
write_length_no_roll(s, offset, length) ==
    LET s2 == TailWriteU64(s, offset, length)
        o2 == offset + 8
    IN  IF o2 >= ArenaSize
        THEN [s |-> flip_tail_page_forward(s2), i_offset |-> 0]
        ELSE [s |-> s2, i_offset |-> o2]

write_length(s, offset, length) ==
    LET s1 == IF offset + 8 > ArenaSize THEN flip_tail_page_forward(s) ELSE s
        o1 == IF offset + 8 > ArenaSize THEN 0 ELSE offset
        s2 == TailWriteU64(s1, o1, length)
        o2 == o1 + 8
    IN  IF o2 = ArenaSize
        THEN [s |-> flip_tail_page_forward(s2), i_offset |-> 0]
        ELSE [s |-> s2, i_offset |-> o2]

\* The loop of write_bytes; count bytes of `bytes` are already written.
\* A failed write_bytes_at returns Err, on which push panics (expect).
RECURSIVE write_bytes_loop(_, _, _, _)
write_bytes_loop(s, bytes, i_offset, count) ==
    LET length   == Len(bytes)
        i_length == length - count
    IN  IF i_offset + i_length > ArenaSize
        THEN LET write_in == Slice(bytes, count, count + ArenaSize - i_offset)
                 w == write_bytes_region(TailMap(s), i_offset, write_in)
                 s1 == [s EXCEPT !.arenas[s.q_tail.aid] = w.region]
             IN  IF ~w.ok THEN [s EXCEPT !.panic = TRUE]
                 ELSE write_bytes_loop(flip_tail_page_forward(s1), bytes, 0,
                                       count + Len(write_in))
        ELSE LET write_in == Slice(bytes, count, length)
                 w == write_bytes_region(TailMap(s), i_offset, write_in)
                 s1 == [s EXCEPT !.arenas[s.q_tail.aid] = w.region]
             IN  IF ~w.ok THEN [s EXCEPT !.panic = TRUE]
                 ELSE IF i_offset + i_length = ArenaSize
                      THEN [flip_tail_page_forward(s1) EXCEPT !.tail_offset = 0]
                      ELSE [s1 EXCEPT !.tail_offset = i_offset + i_length]

\* write_bytes that starts at offset 0 of the tail arena
write_bytes_from_zero(s, offset, bytes) == write_bytes_loop(s, bytes, 0, 0)

write_bytes(s, offset, bytes) == write_bytes_loop(s, bytes, offset, 0)

set_tail_index(s, aid, offset) ==
    [s EXCEPT !.index_file = Index_set_tail(s.index_file, aid, offset),
              !.tail_aid = aid,
              !.tail_offset = offset]

set_head_index(s, aid, offset) ==
    [s EXCEPT !.index_file = Index_set_head(s.index_file, aid, offset),
              !.head_aid = aid,
              !.head_offset = offset]

\* -------------------------------------------------- BigQueue: read path
\* read_length ignores the Result of both of its head flips
read_length(s) ==
    LET over        == s.head_offset + 8 > ArenaSize
        s1          == IF over THEN flip_head_page_to(s, s.head_aid + 1).s ELSE s
        offset      == IF over THEN 0 ELSE s.head_offset
        next_offset == IF over THEN 8 ELSE s.head_offset + 8
        r           == read_u64(HeadMap(s1), offset)
    IN  IF r.some
        THEN [some |-> TRUE, length |-> r.val, rem |-> r.rem,
              s |-> IF next_offset = ArenaSize
                    THEN [flip_head_page_to(s1, s1.head_aid + 1).s
                            EXCEPT !.head_offset = 0]
                    ELSE [s1 EXCEPT !.head_offset = next_offset]]
        ELSE [some |-> FALSE, length |-> 0, rem |-> 0, s |-> s1]

\* The loop of read_bytes; a failed head flip panics (expect).
RECURSIVE read_bytes_loop(_, _, _, _)
read_bytes_loop(s, i_offset, i_length, result) ==
    IF i_offset + i_length > ArenaSize
    THEN IF InRange(HeadMap(s), i_offset, ArenaSize)
         THEN LET slice == Slice(HeadMap(s), i_offset, ArenaSize)
                  f == flip_head_page_to(s, s.head_aid + 1)
              IN  IF ~f.ok
                  THEN [some |-> FALSE, data |-> <<>>,
                        s |-> [f.s EXCEPT !.panic = TRUE]]
                  ELSE read_bytes_loop(f.s, 0, i_length - Len(slice),
                                       result \o slice)
         ELSE [some |-> FALSE, data |-> <<>>, s |-> s]
    ELSE IF InRange(HeadMap(s), i_offset, i_length + i_offset)
         THEN LET slice == Slice(HeadMap(s), i_offset, i_length + i_offset)
              IN  IF i_offset + i_length = ArenaSize
                  THEN LET f == flip_head_page_to(s, s.head_aid + 1)
                       IN  IF ~f.ok
                           THEN [some |-> FALSE, data |-> <<>>,
                                 s |-> [f.s EXCEPT !.panic = TRUE]]
                           ELSE [some |-> TRUE, data |-> result \o slice,
                                 s |-> [f.s EXCEPT !.head_offset = 0]]
                  ELSE [some |-> TRUE, data |-> result \o slice,
                        s |-> [s EXCEPT !.head_offset = i_offset + i_length]]
         ELSE [some |-> FALSE, data |-> <<>>, s |-> s]

read_bytes(s, length) == read_bytes_loop(s, s.head_offset, length, <<>>)

\* ---------------------------------------------------- BigQueue: public API
is_empty(s) == s.head_aid = s.tail_aid /\ s.head_offset = s.tail_offset

\* The value an operation leaves: its locals are dropped on return
Ret(s) == [s EXCEPT !.peek_head = NoHandle]

Result(res, data, s) == [res |-> res, data |-> data, s |-> s]

peek(s) ==
    IF is_empty(s) THEN Result("QueueEmpty", <<>>, s)
    ELSE LET old_aid    == s.head_aid
             old_offset == s.head_offset
             s0         == [s EXCEPT !.peek_head = s.q_head]
             rl         == read_length(s0)
         IN  IF ~rl.some THEN Result("ReadLength", <<>>, Ret(rl.s))
             ELSE LET rb == read_bytes(rl.s, rl.length)
                  IN  IF rb.s.panic THEN Result("panic", <<>>, rb.s)
                      ELSE IF ~rb.some THEN Result("Read", <<>>, Ret(rb.s))
                      ELSE Result("Ok", rb.data,
                                  Ret(change_head(
                                        [rb.s EXCEPT !.head_offset = old_offset],
                                        old_aid, s0.peek_head)))

\* pop that persists the head_aid it saw before reading
pop_stale_aid(s) ==
    IF is_empty(s) THEN Result("QueueEmpty", <<>>, s)
    ELSE LET rl == read_length(s)
         IN  IF ~rl.some THEN Result("ReadLength", <<>>, rl.s)
             ELSE LET rb == read_bytes(rl.s, rl.length)
                  IN  IF rb.s.panic THEN Result("panic", <<>>, rb.s)
                      ELSE IF ~rb.some THEN Result("Read", <<>>, rb.s)
                      ELSE Result("Ok", rb.data,
                                  set_head_index(rb.s, s.head_aid,
                                                 rb.s.head_offset))

\* pop without the emptiness check
pop_unguarded(s) ==
    LET rl == read_length(s)
    IN  IF ~rl.some THEN Result("ReadLength", <<>>, rl.s)
        ELSE LET rb == read_bytes(rl.s, rl.length)
             IN  IF rb.s.panic THEN Result("panic", <<>>, rb.s)
                 ELSE IF ~rb.some THEN Result("Read", <<>>, rb.s)
                 ELSE Result("Ok", rb.data,
                             set_head_index(rb.s, rb.s.head_aid,
                                            rb.s.head_offset))

pop(s) ==
    IF is_empty(s) THEN Result("QueueEmpty", <<>>, s)
    ELSE LET rl == read_length(s)
         IN  IF ~rl.some THEN Result("ReadLength", <<>>, rl.s)
             ELSE LET rb == read_bytes(rl.s, rl.length)
                  IN  IF rb.s.panic THEN Result("panic", <<>>, rb.s)
                      ELSE IF ~rb.some THEN Result("Read", <<>>, rb.s)
                      ELSE Result("Ok", rb.data,
                                  set_head_index(rb.s, rb.s.head_aid,
                                                 rb.s.head_offset))

push(s, bytes) ==
    LET length == Len(bytes)
        wl     == write_length(s, s.tail_offset, length)
        wb     == write_bytes(wl.s, wl.i_offset, bytes)
    IN  IF wb.panic THEN Result("panic", <<>>, wb)
        ELSE Result("Ok", <<>>, set_tail_index(wb, wb.tail_aid, wb.tail_offset))

\* dequeue that does not reduce the new head offset modulo arena_size
dequeue_unreduced(s) ==
    IF is_empty(s) THEN Result("QueueEmpty", <<>>, s)
    ELSE LET rl == read_length(s)
         IN  IF rl.some
             THEN LET head_aid_l    == rl.s.head_aid
                      head_offset_l == rl.s.head_offset
                      length        == rl.length
                  IN  IF head_offset_l + length >= ArenaSize
                      THEN LET f == flip_head_page_to(rl.s, head_aid_l + 1)
                               o == head_offset_l + length - ArenaSize
                           IN  IF ~f.ok
                               THEN Result("panic", <<>>,
                                           [f.s EXCEPT !.panic = TRUE])
                               ELSE Result("Ok", <<>>,
                                      set_head_index(f.s, head_aid_l + 1, o))
                      ELSE Result("Ok", <<>>,
                             set_head_index(rl.s, head_aid_l,
                                            head_offset_l + length))
             ELSE Result("ReadLength", <<>>, rl.s)

\* (head_offset + length - arena_size) % arena_size for a length that the
\* model caps at Huge is computed from the exact remainder of the length.
dequeue(s) ==
    IF is_empty(s) THEN Result("QueueEmpty", <<>>, s)
    ELSE LET rl == read_length(s)
         IN  IF rl.some
             THEN LET head_aid_l    == rl.s.head_aid
                      head_offset_l == rl.s.head_offset
                      length        == rl.length
                  IN  IF head_offset_l + length >= ArenaSize
                      THEN LET f == flip_head_page_to(rl.s, head_aid_l + 1)
                               o == IF length < Huge
                                    THEN (head_offset_l + length - ArenaSize)
                                            % ArenaSize
                                    ELSE (head_offset_l + rl.rem) % ArenaSize
                           IN  IF ~f.ok
                               THEN Result("panic", <<>>,
                                           [f.s EXCEPT !.panic = TRUE])
                               ELSE Result("Ok", <<>>,
                                      set_head_index(f.s, head_aid_l + 1, o))
                      ELSE Result("Ok", <<>>,
                             set_head_index(rl.s, head_aid_l,
                                 (head_offset_l + length) % ArenaSize))
             ELSE Result("ReadLength", <<>>, rl.s)

\* ------------------------------------------------------ paths and shrink
\* A path is a sequence of tokens; a token is a piece of text without '_'
\* and '.', one of these two characters, or a decimal number.
Tok(t) == [t |-> t, n |-> 0]
Num(n) == [t |-> "#", n |-> n]

\* The directories a queue is opened in: without, with one and with two '_'
DirNames == { <<Tok("/tmp/bigqueue")>>,
              <<Tok("/tmp/big"), Tok("_"), Tok("queue")>>,
              <<Tok("/tmp/a"), Tok("_"), Tok("b"), Tok("_"), Tok("c")>> }

\* dir.join(format!("arena_{}.dat", aid))
ArenaPath(dir, aid) ==
    dir \o <<Tok("/arena"), Tok("_"), Num(aid), Tok("."), Tok("dat")>>

\* base.join(INDEX_FILE)
IndexPath(dir) == dir \o <<Tok("/index"), Tok("."), Tok("dat")>>

\* fs::read_dir(dir): an entry is the file it names and its path
ReadDir(s) ==
    (IF s.index_file # <<>>
     THEN {[kind |-> "index", aid |-> 0, path |-> IndexPath(s.dir)]} ELSE {})
    \cup {[kind |-> "arena", aid |-> a, path |-> ArenaPath(s.dir, a)] :
             a \in DOMAIN s.arenas}

EndsWithDat(path) ==
    /\ Len(path) >= 2
    /\ path[Len(path) - 1] = Tok(".")
    /\ path[Len(path)] = Tok("dat")

\* str::split(sep): the pieces between the occurrences of sep
RECURSIVE SplitFrom(_, _, _, _)
SplitFrom(path, sep, i, cur) ==
    IF i > Len(path) THEN <<cur>>
    ELSE IF path[i] = Tok(sep)
         THEN <<cur>> \o SplitFrom(path, sep, i + 1, <<>>)
         ELSE SplitFrom(path, sep, i + 1, Append(cur, path[i]))

Split(path, sep) == SplitFrom(path, sep, 1, <<>>)

\* part[0].parse::<usize>() is Ok iff the piece is one decimal number
ParseOk(piece) == Len(piece) = 1 /\ piece[1].t = "#"

\* What the body of the loop of shrink does with one directory entry
ShrinkEntry(s, e) ==
    IF ~EndsWithDat(e.path) THEN "skip"
    ELSE LET part == Split(e.path, "_")
         IN  IF Len(part) # 2 THEN "skip"
             ELSE LET piece == Split(part[2], ".")[1]
                  IN  IF ~ParseOk(piece) THEN "panic"
                      ELSE LET index_usize == piece[1].n
                           IN  IF \/ /\ s.tail_aid >= s.head_aid
                                     /\ index_usize < s.head_aid
                                  \/ /\ s.tail_aid < s.head_aid
                                     /\ index_usize > s.tail_aid
                                     /\ index_usize < s.head_aid
                               THEN "remove"
                               ELSE "keep"

RemoveFiles(files, gone) == [a \in DOMAIN files \ gone |-> files[a]]

\* shrink: the files removed do not depend on the order of the entries
\* (an entry that panics and an entry that is removed never share a
\* directory: the first needs one '_' in the directory name, the second none)
shrink(s) ==
    LET es   == ReadDir(s)
        gone == {e.aid : e \in {x \in es : x.kind = "arena"
                                           /\ ShrinkEntry(s, x) = "remove"}}
        s1   == [s EXCEPT !.arenas = RemoveFiles(s.arenas, gone)]
    IN  IF \E e \in es : ShrinkEntry(s, e) = "panic"
        THEN [s1 EXCEPT !.panic = TRUE]
        ELSE s1

\* impl Drop for BigQueue
drop(s) == shrink([s EXCEPT !.cache = <<>>])

\* delete_dir_contents that removes the arena files and keeps index.dat
delete_dir_contents_keeps_index(d) ==
    [d EXCEPT !.arenas = RemoveFiles(@, {a \in DOMAIN @ :
                                           EndsWithDat(ArenaPath(d.dir, a))})]

\* delete_dir_contents: remove every entry whose path ends with ".dat"
delete_dir_contents(d) ==
    [d EXCEPT !.index_file = IF EndsWithDat(IndexPath(d.dir)) THEN <<>> ELSE @,
              !.arenas = RemoveFiles(@, {a \in DOMAIN @ :
                                           EndsWithDat(ArenaPath(d.dir, a))})]

\* BigQueue::with_config on the directory d = [dir, index_file, arenas];
\* the directory exists and is writable.  open_a_arena creates a missing file.
with_config(d, reset, conf) ==
    LET d1       == IF reset THEN delete_dir_contents(d) ELSE d
        q_index  == Index_new(d1.index_file)
        h        == get_head_tuple(q_index)
        t        == get_tail_tuple(q_index)
        files1   == Arena_new(d1.arenas, t[1])
        tail     == Handle(t[1], "tail")
        files2   == IF h[1] # t[1] THEN Arena_new(files1, h[1]) ELSE files1
        head     == IF h[1] # t[1] THEN Handle(h[1], "head") ELSE tail
    IN  [dir |-> d.dir, index_file |-> q_index, arenas |-> files2,
         head_aid |-> h[1], head_offset |-> h[2],
         tail_aid |-> t[1], tail_offset |-> t[2],
         q_head |-> head, q_tail |-> tail, cache |-> <<>>, config |-> conf,
         peek_head |-> NoHandle, panic |-> FALSE, exist |-> FALSE, nflip |-> 0]

\* Config { arena_size, max_arenas_in_mem }; Config::new() has the default
\* max_arenas_in_mem, and every modelled queue has arena_size = ArenaSize
Config(m) == [arena_size |-> ArenaSize, max_arenas_in_mem |-> m]

Config_new == Config(MIN_ARENAS_MAX_IN_MEM)

\* ------------------------------------------------------------------ state
VARIABLES
    config,         \* BigQueue.config
    dir,            \* BigQueue.dir: the path of the queue directory
    index_file,     \* the bytes of index.dat (BigQueue.index maps them)
    arenas,         \* the arena files of the directory: aid -> bytes
    head_aid, head_offset, tail_aid, tail_offset,
    q_head, q_tail, \* the handles of the head and tail arena
    cache,          \* the LruCache of handles, most recently used first
    status,         \* "open", "closed" (dropped) or "panicked"
    pushed,         \* the payloads pushed since the queue was opened empty
    consumed,       \* the number of successful pop/dequeue calls since then
    last,           \* the last public operation and what it returned
    at_drop,        \* the cursors at the last drop, until the first
                    \* operation on the reopened queue
    prod,           \* the producer thread of a channel: pc and locals of push
    cons,           \* the consumer thread: pc and locals of dequeue, count
    obs             \* what the producer has written (bytes, frames, frame
                    \* ends), what the consumer read

qvars == <<config, dir, index_file, arenas, head_aid, head_offset, tail_aid,
           tail_offset, q_head, q_tail, cache, status>>
gvars == <<pushed, consumed, last, at_drop>>
svars == <<prod, cons, obs>>
vars  == <<qvars, gvars, svars>>

\* The queue as the record the methods work on
Self ==
    [dir |-> dir, index_file |-> index_file, arenas |-> arenas,
     head_aid |-> head_aid, head_offset |-> head_offset,
     tail_aid |-> tail_aid, tail_offset |-> tail_offset,
     q_head |-> q_head, q_tail |-> q_tail, cache |-> cache,
     config |-> config,
     peek_head |-> NoHandle, panic |-> FALSE, exist |-> FALSE, nflip |-> 0]

Becomes(s) ==
    /\ config' = s.config
    /\ dir' = s.dir
    /\ index_file' = s.index_file
    /\ arenas' = s.arenas
    /\ head_aid' = s.head_aid
    /\ head_offset' = s.head_offset
    /\ tail_aid' = s.tail_aid
    /\ tail_offset' = s.tail_offset
    /\ q_head' = s.q_head
    /\ q_tail' = s.q_tail
    /\ cache' = s.cache
    /\ status' = IF s.panic THEN "panicked" ELSE "open"

NoDrop == <<0, 0, 0, 0>>

Cursors(s) == <<s.head_aid, s.head_offset, s.tail_aid, s.tail_offset>>

Last(op, r) ==
    [op |-> op, res |-> r.res, data |-> r.data, nflip |-> r.s.nflip,
     exist |-> r.s.exist]

\* ----------------------------------------------------------------- inputs
\* Payload lengths: empty, filling arena 0 exactly, short and leaving exactly
\* 8 bytes in the arena where the frame ends, longer than an arena, spanning
\* more than two arenas.  Payload bytes: all 0, or 1, 2, ...
Lens == {0, ArenaSize - 8, ArenaSize - 6, ArenaSize + 2, 2 * ArenaSize + 3}
Fill == {0, 1}
Payload(len, b) == [i \in 1..len |-> (b * i) % 128]
Payloads == {Payload(len, b) : len \in Lens, b \in Fill}
PayloadsLife == {Payload(len, 1) : len \in Lens}

EmptyDir(d) == [dir |-> d, index_file |-> <<>>, arenas |-> <<>>]

\* ------------------------------------------------------- sequential model
\* BigQueue::with_config(dir, reset, conf) on an empty directory named by
\* one of dirs, with one of confs
InitWith(dirs, confs) ==
    /\ \E d \in dirs : \E reset \in BOOLEAN : \E conf \in confs :
          LET s == with_config(EmptyDir(d), reset, conf)
          IN  /\ config = s.config
              /\ dir = s.dir
              /\ index_file = s.index_file
              /\ arenas = s.arenas
              /\ head_aid = s.head_aid
              /\ head_offset = s.head_offset
              /\ tail_aid = s.tail_aid
              /\ tail_offset = s.tail_offset
              /\ q_head = s.q_head
              /\ q_tail = s.q_tail
              /\ cache = s.cache
    /\ status = "open"
    /\ pushed = <<>>
    /\ consumed = 0
    /\ last = [op |-> "reset", res |-> "Ok", data |-> <<>>, nflip |-> 0,
               exist |-> FALSE]
    /\ at_drop = NoDrop
    /\ prod = [pc |-> "off"]
    /\ cons = [pc |-> "off"]
    /\ obs = [wr |-> {}]

\* BigQueue::new(dir, reset) on an empty directory named by one of dirs
InitIn(dirs) == InitWith(dirs, {Config_new})

PlainDir == <<Tok("/tmp/bigqueue")>>

Init == InitIn({PlainDir})

InitLife == InitIn(DirNames)

PushN(bytes, max) ==
    /\ status = "open"
    /\ Len(pushed) < max
    /\ LET r == push(Self, bytes)
       IN  /\ Becomes(r.s)
           /\ last' = Last("push", r)
    /\ pushed' = Append(pushed, bytes)
    /\ at_drop' = NoDrop
    /\ UNCHANGED <<consumed, svars>>

Push(bytes) == PushN(bytes, MaxPush)

PushLife(bytes) == PushN(bytes, MaxPushLife)

\* A read is attempted as long as no more reads than pushes have succeeded
\* (a queue that hands out records nobody pushed would do so without end)
CanRead == status = "open" /\ consumed <= Len(pushed)

Pop ==
    /\ CanRead
    /\ LET r == pop(Self)
       IN  /\ Becomes(r.s)
           /\ last' = Last("pop", r)
           /\ consumed' = IF r.res = "Ok" THEN consumed + 1 ELSE consumed
    /\ at_drop' = NoDrop
    /\ UNCHANGED <<pushed, svars>>

Peek ==
    /\ status = "open"
    /\ LET r == peek(Self)
       IN  /\ Becomes(r.s)
           /\ last' = Last("peek", r)
    /\ at_drop' = NoDrop
    /\ UNCHANGED <<pushed, consumed, svars>>

Dequeue ==
    /\ CanRead
    /\ LET r == dequeue(Self)
       IN  /\ Becomes(r.s)
           /\ last' = Last("dequeue", r)
           /\ consumed' = IF r.res = "Ok" THEN consumed + 1 ELSE consumed
    /\ at_drop' = NoDrop
    /\ UNCHANGED <<pushed, svars>>

Shrink ==
    /\ status = "open"
    /\ LET s == shrink(Self)
       IN  /\ Becomes(s)
           /\ last' = Last("shrink",
                           Result(IF s.panic THEN "panic" ELSE "Ok", <<>>, s))
    /\ at_drop' = NoDrop
    /\ UNCHANGED <<pushed, consumed, svars>>

\* Dropping the queue: the object is gone, the directory stays
Close ==
    /\ status = "open"
    /\ LET s == drop(Self)
       IN  /\ index_file' = s.index_file
           /\ arenas' = s.arenas
           /\ last' = Last("drop",
                           Result(IF s.panic THEN "panic" ELSE "Ok", <<>>, s))
    /\ at_drop' = Cursors(Self)
    /\ status' = "closed"
    /\ head_aid' = 0 /\ head_offset' = 0 /\ tail_aid' = 0 /\ tail_offset' = 0
    /\ q_head' = NoHandle /\ q_tail' = NoHandle /\ cache' = <<>>
    /\ UNCHANGED <<config, dir, pushed, consumed, svars>>

\* Opening the directory again, with or without reset
Open(reset) ==
    /\ status = "closed"
    /\ LET s == with_config([dir |-> dir, index_file |-> index_file,
                             arenas |-> arenas], reset, config)
       IN  /\ Becomes(s)
           /\ last' = Last(IF reset THEN "reset" ELSE "open",
                           Result("Ok", <<>>, s))
    /\ pushed' = IF reset THEN <<>> ELSE pushed
    /\ consumed' = IF reset THEN 0 ELSE consumed
    /\ UNCHANGED <<at_drop, svars>>

\* Sequential use of the direct API on one open queue
Next ==
    \/ \E b \in Payloads : Push(b)
    \/ Pop
    \/ Peek
    \/ Dequeue

Spec == Init /\ [][Next]_vars

\* Sequential use restricted to push, pop and peek
NextFifo ==
    \/ \E b \in Payloads : Push(b)
    \/ Pop
    \/ Peek

SpecFifo == Init /\ [][NextFifo]_vars

\* Sequential use over the life of a directory: shrink, drop and reopen too
NextLife ==
    \/ \E b \in PayloadsLife : PushLife(b)
    \/ Pop
    \/ Peek
    \/ Dequeue
    \/ Shrink
    \/ Close
    \/ \E reset \in BOOLEAN : Open(reset)

SpecLife == InitLife /\ [][NextLife]_vars

\* ------------------------------------------------------------- properties
Empty == head_aid = tail_aid /\ head_offset = tail_offset

Outcome(r) == [res |-> r.res, data |-> r.data]

\* C1: with push, pop and peek only, every push is accepted, the k-th
\* successful pop returns exactly the bytes of the k-th push, and pop reports
\* QueueEmpty only when every pushed record has been popped.
C1_FifoRoundTrip ==
    /\ last.op = "push" => last.res = "Ok"
    /\ last.op = "pop" =>
          \/ /\ last.res = "Ok"
             /\ consumed <= Len(pushed)
             /\ last.data = pushed[consumed]
          \/ /\ last.res = "QueueEmpty"
             /\ consumed = Len(pushed)

\* The second pop returned a payload longer than an arena, read across
\* at least two head flips
C1_Witness ==
    /\ last.op = "pop" /\ last.res = "Ok"
    /\ consumed = 2
    /\ Len(last.data) > ArenaSize
    /\ last.nflip >= 2

\* C2: on a non-empty queue every peek returns the oldest unconsumed record,
\* a peek right after a peek returns the same bytes, and a pop right after a
\* peek returns the bytes the peek returned.
C2_PeekIdempotent ==
    [][ /\ (Peek /\ ~Empty) =>
              /\ last'.res = "Ok"
              /\ consumed < Len(pushed)
              /\ last'.data = pushed[consumed + 1]
        /\ (Peek /\ last.op = "peek" /\ last.res = "Ok") =>
              /\ last'.res = "Ok"
              /\ last'.data = last.data
        /\ (Pop /\ last.op = "peek" /\ last.res = "Ok") =>
              /\ last'.res = "Ok"
              /\ last'.data = last.data ]_vars

\* C3: a peek that returns leaves head_aid, head_offset, q_head, tail_aid,
\* tail_offset and the bytes of index.dat as they were.
C3_PeekNonMutating ==
    [][ (Peek /\ status' = "open") =>
           UNCHANGED <<head_aid, head_offset, q_head, tail_aid, tail_offset,
                       index_file>> ]_vars

\* A peek returned bytes after flipping the head page at least twice
C3_Witness == last.op = "peek" /\ last.res = "Ok" /\ last.nflip >= 2

\* C4: from a non-empty queue, dequeue leaves the head cursor and the head
\* pair of the index where pop would leave them.
C4_DequeueMatchesPop ==
    [][ (Dequeue /\ ~Empty) =>
           LET p == pop(Self).s
           IN  /\ <<head_aid', head_offset'>> = <<p.head_aid, p.head_offset>>
               /\ get_head_tuple(index_file') = get_head_tuple(p.index_file)
      ]_vars

\* The results of up to n pops from s, stopping at the first that fails
RECURSIVE Drain(_, _)
Drain(s, n) ==
    IF n <= 0 THEN <<>>
    ELSE LET r == pop(s)
         IN  <<Outcome(r)>> \o (IF r.res = "Ok" THEN Drain(r.s, n - 1) ELSE <<>>)

\* The unconsumed records in order, then QueueEmpty
Remaining ==
    [i \in 1..(Len(pushed) - consumed) |->
        [res |-> "Ok", data |-> pushed[consumed + i]]]
    \o <<[res |-> "QueueEmpty", data |-> <<>>]>>

\* C5: a queue reopened without reset has the cursors it had when it was
\* dropped, and popping it returns the unconsumed records in order and then
\* QueueEmpty.
C5_PersistAcrossReopen ==
    last.op = "open" =>
        /\ Cursors(Self) = at_drop
        /\ Drain(Self, Len(pushed) - consumed + 1) = Remaining

\* C6: after an open with reset the cursors are (0, 0), the queue is empty
\* and pop, dequeue and peek each return QueueEmpty.
C6_EmptyAfterReset ==
    last.op = "reset" =>
        /\ Cursors(Self) = <<0, 0, 0, 0>>
        /\ is_empty(Self)
        /\ pop(Self).res = "QueueEmpty"
        /\ dequeue(Self).res = "QueueEmpty"
        /\ peek(Self).res = "QueueEmpty"

\* A reset-open of a directory whose queue was dropped with unconsumed
\* records and a tail beyond arena 0
C6_Witness ==
    /\ last.op = "reset"
    /\ <<at_drop[1], at_drop[2]>> # <<at_drop[3], at_drop[4]>>
    /\ at_drop[3] >= 1

ReadOp(op, s) ==
    IF op = "pop" THEN pop(s) ELSE IF op = "peek" THEN peek(s) ELSE dequeue(s)

\* C7: when head equals tail, pop, peek and dequeue return QueueEmpty and
\* change nothing, and a push followed by a pop then returns the pushed bytes.
C7_EmptyReadsFailCleanly ==
    (status = "open" /\ Empty) =>
        /\ \A op \in {"pop", "peek", "dequeue"} :
              LET e == ReadOp(op, Self)
              IN  e.res = "QueueEmpty" /\ e.s = Self
        /\ \A b \in Payloads :
              LET r == pop(push(Self, b).s)
              IN  r.res = "Ok" /\ r.data = b

\* A read was refused on a queue whose cursors had left arena 0
C7_Witness ==
    /\ last.op \in {"pop", "peek", "dequeue"}
    /\ last.res = "QueueEmpty"
    /\ Empty
    /\ head_aid >= 1

\* C8: the cursors are equal exactly when as many pop/dequeue calls have
\* succeeded as there were pushes.
C8_EmptyIsExact ==
    status = "open" => (Empty <=> consumed = Len(pushed))

\* ------------------------------------------------------------ SPSC channel
\* channel(dir, reset) shares one BigQueue between a Sender (enqueue = push)
\* and a Receiver (dequeue) without a lock.  Each action below is one access
\* of a thread to shared state (a field of BigQueue, the cache, an arena
\* word or chunk, an index word, the directory), in program order; the
\* locals of push and of dequeue are the fields of prod and cons.
SpscDir == <<Tok("/tmp/spsc")>>

\* Lengths of the fixed payload: one that leaves less than 8 bytes in the
\* arena, one that is split over two arenas and leaves exactly 8 bytes.
SpscLens == {1, ArenaSize - 6}

Pos(aid, off) == <<aid, off>>
Word(aid, off) == {Pos(aid, off + i) : i \in 0..7}

\* The producer enters flip_tail_page_forward and continues at ret
CallTailFlip(p, ret) == [p EXCEPT !.pc = "f_put", !.ret = ret]

\* The consumer enters flip_head_page_to(aid) and continues at ret; must
\* says that the caller panics on Err (expect) instead of ignoring it
CallHeadFlip(c, aid, must, ret) ==
    [c EXCEPT !.pc = "h_pop", !.aid = aid, !.must = must, !.ret = ret]

\* channel(): BigQueue::new on an empty directory; the example's threads
InitSPSC ==
    /\ \E reset \in BOOLEAN :
          LET s == with_config(EmptyDir(SpscDir), reset, Config_new)
          IN  /\ config = s.config
              /\ dir = s.dir
              /\ index_file = s.index_file
              /\ arenas = s.arenas
              /\ head_aid = s.head_aid
              /\ head_offset = s.head_offset
              /\ tail_aid = s.tail_aid
              /\ tail_offset = s.tail_offset
              /\ q_head = s.q_head
              /\ q_tail = s.q_tail
              /\ cache = s.cache
    /\ status = "open"
    /\ pushed = <<>>
    /\ consumed = 0
    /\ last = [op |-> "channel", res |-> "Ok", data |-> <<>>, nflip |-> 0,
               exist |-> FALSE]
    /\ at_drop = NoDrop
    /\ \E len \in SpscLens :
          prod = [pc |-> "idle", sent |-> 0, bytes |-> Payload(len, 1),
                  i_offset |-> 0, count |-> 0, noff |-> 0, ret |-> "idle",
                  frame |-> Pos(0, 0)]
    /\ cons = [pc |-> "e_aid", count |-> 0, offset |-> 0, next |-> 0,
               length |-> 0, rem |-> 0, noff |-> 0, h_aid |-> 0, h_off |-> 0,
               aid |-> 0, must |-> FALSE, ret |-> "e_aid",
               frame |-> Pos(0, 0)]
    /\ obs = [wr |-> {}, frames |-> {}, ends |-> {Pos(0, 0)},
              unwritten |-> FALSE, early |-> FALSE]

ProducerOnly ==
    UNCHANGED <<config, dir, head_aid, head_offset, q_head, gvars, cons>>
ConsumerOnly ==
    UNCHANGED <<config, dir, tail_aid, tail_offset, q_tail, gvars, prod>>

\* --------------------------------------------------- producer: push steps
\* push: read self.tail_offset, enter write_length
P_Begin ==
    /\ status = "open" /\ prod.pc = "idle" /\ prod.sent < NRecords
    /\ prod' = IF tail_offset + 8 > ArenaSize
               THEN CallTailFlip([prod EXCEPT !.i_offset = 0], "wl_write")
               ELSE [prod EXCEPT !.pc = "wl_write", !.i_offset = tail_offset]
    /\ UNCHANGED <<index_file, arenas, tail_aid, tail_offset, q_tail, cache,
                   status, obs>>
    /\ ProducerOnly

\* write_length: write_u64_at(i_offset, length) through q_tail
P_WriteLength ==
    /\ status = "open" /\ prod.pc = "wl_write"
    /\ arenas' = [arenas EXCEPT ![q_tail.aid] =
                    write_u64(arenas[q_tail.aid], prod.i_offset,
                              Len(prod.bytes)).region]
    /\ obs' = [obs EXCEPT !.wr = @ \cup Word(q_tail.aid, prod.i_offset)]
    /\ LET p == [prod EXCEPT !.frame = Pos(q_tail.aid, prod.i_offset),
                             !.count = 0]
       IN  prod' = IF prod.i_offset + 8 = ArenaSize
                   THEN CallTailFlip([p EXCEPT !.i_offset = 0], "wb")
                   ELSE [p EXCEPT !.pc = "wb", !.i_offset = prod.i_offset + 8]
    /\ UNCHANGED <<index_file, tail_aid, tail_offset, q_tail, cache, status>>
    /\ ProducerOnly

\* write_bytes: one iteration of the loop, i.e. one write_bytes_at
P_WriteBytes ==
    /\ status = "open" /\ prod.pc = "wb"
    /\ LET length   == Len(prod.bytes)
           i_length == length - prod.count
           split    == prod.i_offset + i_length > ArenaSize
           write_in == IF split
                       THEN Slice(prod.bytes, prod.count,
                                  prod.count + ArenaSize - prod.i_offset)
                       ELSE Slice(prod.bytes, prod.count, length)
           w        == write_bytes_region(arenas[q_tail.aid], prod.i_offset,
                                          write_in)
           written  == {Pos(q_tail.aid, prod.i_offset + i) :
                            i \in 0..(Len(write_in) - 1)}
       IN  IF ~w.ok
           THEN /\ status' = "panicked"
                /\ UNCHANGED <<arenas, obs, prod>>
           ELSE /\ status' = status
                /\ arenas' = [arenas EXCEPT ![q_tail.aid] = w.region]
                /\ obs' = [obs EXCEPT
                             !.wr = @ \cup written,
                             !.frames = IF split THEN @
                                        ELSE @ \cup {prod.frame},
                             !.ends = IF split THEN @
                                      ELSE IF prod.i_offset + i_length = ArenaSize
                                      THEN @ \cup {Pos(q_tail.aid + 1, 0)}
                                      ELSE @ \cup {Pos(q_tail.aid,
                                                 prod.i_offset + i_length)}]
                /\ prod' =
                     IF split
                     THEN CallTailFlip(
                            [prod EXCEPT !.count = prod.count + Len(write_in),
                                         !.i_offset = 0], "wb")
                     ELSE IF prod.i_offset + i_length = ArenaSize
                          THEN CallTailFlip([prod EXCEPT !.noff = 0], "toff")
                          ELSE [prod EXCEPT !.pc = "toff",
                                    !.noff = prod.i_offset + i_length]
    /\ UNCHANGED <<index_file, tail_aid, tail_offset, q_tail, cache>>
    /\ ProducerOnly

\* write_bytes: self.tail_offset = ...
P_SetTailOffset ==
    /\ status = "open" /\ prod.pc = "toff"
    /\ tail_offset' = prod.noff
    /\ prod' = [prod EXCEPT !.pc = "ix_aid"]
    /\ UNCHANGED <<index_file, arenas, tail_aid, q_tail, cache, status, obs>>
    /\ ProducerOnly

\* set_tail_index(self.tail_aid, self.tail_offset): Index::set_tail, word 2
P_IndexTailAid ==
    /\ status = "open" /\ prod.pc = "ix_aid"
    /\ index_file' = write_u64_at_windows(index_file, 2, tail_aid)
    /\ prod' = [prod EXCEPT !.pc = "ix_off"]
    /\ UNCHANGED <<arenas, tail_aid, tail_offset, q_tail, cache, status, obs>>
    /\ ProducerOnly

\* Index::set_tail, word 3
P_IndexTailOffset ==
    /\ status = "open" /\ prod.pc = "ix_off"
    /\ index_file' = write_u64_at_windows(index_file, 3, tail_offset)
    /\ prod' = [prod EXCEPT !.pc = "st_aid"]
    /\ UNCHANGED <<arenas, tail_aid, tail_offset, q_tail, cache, status, obs>>
    /\ ProducerOnly

\* set_tail_index: self.tail_aid = aid (the value it already has)
P_StoreTailAid ==
    /\ status = "open" /\ prod.pc = "st_aid"
    /\ tail_aid' = tail_aid
    /\ prod' = [prod EXCEPT !.pc = "st_off"]
    /\ UNCHANGED <<index_file, arenas, tail_offset, q_tail, cache, status, obs>>
    /\ ProducerOnly

\* set_tail_index: self.tail_offset = offset; push returns Ok and the loop
\* of the producer thread goes on or ends
P_StoreTailOffset ==
    /\ status = "open" /\ prod.pc = "st_off"
    /\ tail_offset' = tail_offset
    /\ prod' = [prod EXCEPT !.sent = prod.sent + 1,
                            !.pc = IF prod.sent + 1 = NRecords
                                   THEN "done" ELSE "idle"]
    /\ UNCHANGED <<index_file, arenas, tail_aid, q_tail, cache, status, obs>>
    /\ ProducerOnly

\* flip_tail_page_forward: self.cache.put(old_aid, self.q_tail.clone())
P_FlipCachePut ==
    /\ status = "open" /\ prod.pc = "f_put"
    /\ cache' = CachePut(cache, q_tail)
    /\ prod' = [prod EXCEPT !.pc = "f_open"]
    /\ UNCHANGED <<index_file, arenas, tail_aid, tail_offset, q_tail, status,
                   obs>>
    /\ ProducerOnly

\* flip_tail_page_forward: self.open_arena(1 + old_aid)
P_FlipOpenArena ==
    /\ status = "open" /\ prod.pc = "f_open"
    /\ arenas' = Arena_new(arenas, 1 + tail_aid)
    /\ prod' = [prod EXCEPT !.pc = "f_qtail"]
    /\ UNCHANGED <<index_file, tail_aid, tail_offset, q_tail, cache, status,
                   obs>>
    /\ ProducerOnly

\* set_tail: self.q_tail = Rc::new(...)
P_FlipSetQTail ==
    /\ status = "open" /\ prod.pc = "f_qtail"
    /\ q_tail' = Handle(1 + tail_aid, "tail")
    /\ prod' = [prod EXCEPT !.pc = "f_aid"]
    /\ UNCHANGED <<index_file, arenas, tail_aid, tail_offset, cache, status,
                   obs>>
    /\ ProducerOnly

\* set_tail: self.tail_aid = id; flip_tail_page_forward returns
P_FlipSetTailAid ==
    /\ status = "open" /\ prod.pc = "f_aid"
    /\ tail_aid' = 1 + tail_aid
    /\ prod' = [prod EXCEPT !.pc = prod.ret]
    /\ UNCHANGED <<index_file, arenas, tail_offset, q_tail, cache, status, obs>>
    /\ ProducerOnly

Producer ==
    \/ P_Begin
    \/ P_WriteLength
    \/ P_WriteBytes
    \/ P_SetTailOffset
    \/ P_IndexTailAid
    \/ P_IndexTailOffset
    \/ P_StoreTailAid
    \/ P_StoreTailOffset
    \/ P_FlipCachePut
    \/ P_FlipOpenArena
    \/ P_FlipSetQTail
    \/ P_FlipSetTailAid

\* ------------------------------------------------ consumer: dequeue steps
\* is_empty: self.head_aid == self.tail_aid (&& short-circuits)
C_IsEmptyAid ==
    /\ status = "open" /\ cons.pc = "e_aid"
    /\ cons' = [cons EXCEPT !.pc = IF head_aid = tail_aid
                                   THEN "e_off" ELSE "rl"]
    /\ UNCHANGED <<index_file, arenas, head_aid, head_offset, q_head, cache,
                   status, obs>>
    /\ ConsumerOnly

\* is_empty: self.head_offset == self.tail_offset; on Err(QueueEmpty) the
\* loop of the consumer thread calls dequeue again
C_IsEmptyOffset ==
    /\ status = "open" /\ cons.pc = "e_off"
    /\ cons' = [cons EXCEPT !.pc = IF head_offset = tail_offset
                                   THEN "e_aid" ELSE "rl"]
    /\ UNCHANGED <<index_file, arenas, head_aid, head_offset, q_head, cache,
                   status, obs>>
    /\ ConsumerOnly

\* read_length: offset and next_offset; the flip when the word does not fit
C_ReadLengthBegin ==
    /\ status = "open" /\ cons.pc = "rl"
    /\ cons' = IF head_offset + 8 > ArenaSize
               THEN CallHeadFlip([cons EXCEPT !.offset = 0, !.next = 8],
                                 head_aid + 1, FALSE, "rd")
               ELSE [cons EXCEPT !.pc = "rd", !.offset = head_offset,
                                 !.next = head_offset + 8]
    /\ UNCHANGED <<index_file, arenas, head_aid, head_offset, q_head, cache,
                   status, obs>>
    /\ ConsumerOnly

\* read_length: read_u64(self.get_head_map(), offset)
C_ReadLengthWord ==
    /\ status = "open" /\ cons.pc = "rd"
    /\ LET r == read_u64(arenas[q_head.aid], cons.offset)
           c == [cons EXCEPT !.length = r.val, !.rem = r.rem,
                             !.frame = Pos(q_head.aid, cons.offset)]
       IN  IF r.some
           THEN /\ obs' = [obs EXCEPT !.unwritten =
                             @ \/ ~(Word(q_head.aid, cons.offset) \subseteq obs.wr)]
                /\ cons' = IF cons.next = ArenaSize
                           THEN CallHeadFlip([c EXCEPT !.noff = 0],
                                             head_aid + 1, FALSE, "hoff")
                           ELSE [c EXCEPT !.pc = "hoff", !.noff = cons.next]
           ELSE /\ obs' = obs
                /\ cons' = [cons EXCEPT !.pc = "e_aid"]
    /\ UNCHANGED <<index_file, arenas, head_aid, head_offset, q_head, cache,
                   status>>
    /\ ConsumerOnly

\* read_length: self.head_offset = ...
C_SetHeadOffset ==
    /\ status = "open" /\ cons.pc = "hoff"
    /\ head_offset' = cons.noff
    /\ cons' = [cons EXCEPT !.pc = "dq"]
    /\ UNCHANGED <<index_file, arenas, head_aid, q_head, cache, status, obs>>
    /\ ConsumerOnly

\* dequeue: the new head pair from self.head_aid, self.head_offset, length
C_Advance ==
    /\ status = "open" /\ cons.pc = "dq"
    /\ cons' =
         IF head_offset + cons.length >= ArenaSize
         THEN CallHeadFlip(
                [cons EXCEPT
                   !.h_aid = head_aid + 1,
                   !.h_off = IF cons.length < Huge
                             THEN (head_offset + cons.length - ArenaSize)
                                     % ArenaSize
                             ELSE (head_offset + cons.rem) % ArenaSize],
                head_aid + 1, TRUE, "ix_aid")
         ELSE [cons EXCEPT !.pc = "ix_aid", !.h_aid = head_aid,
                           !.h_off = (head_offset + cons.length) % ArenaSize]
    /\ UNCHANGED <<index_file, arenas, head_aid, head_offset, q_head, cache,
                   status, obs>>
    /\ ConsumerOnly

\* set_head_index(head_aid, head_offset): Index::set_head, word 0
C_IndexHeadAid ==
    /\ status = "open" /\ cons.pc = "ix_aid"
    /\ index_file' = write_u64_at_windows(index_file, 0, cons.h_aid)
    /\ cons' = [cons EXCEPT !.pc = "ix_off"]
    /\ UNCHANGED <<arenas, head_aid, head_offset, q_head, cache, status, obs>>
    /\ ConsumerOnly

\* Index::set_head, word 1
C_IndexHeadOffset ==
    /\ status = "open" /\ cons.pc = "ix_off"
    /\ index_file' = write_u64_at_windows(index_file, 1, cons.h_off)
    /\ cons' = [cons EXCEPT !.pc = "st_aid"]
    /\ UNCHANGED <<arenas, head_aid, head_offset, q_head, cache, status, obs>>
    /\ ConsumerOnly

\* set_head_index: self.head_aid = aid
C_StoreHeadAid ==
    /\ status = "open" /\ cons.pc = "st_aid"
    /\ head_aid' = cons.h_aid
    /\ cons' = [cons EXCEPT !.pc = "st_off"]
    /\ UNCHANGED <<index_file, arenas, head_offset, q_head, cache, status, obs>>
    /\ ConsumerOnly

\* set_head_index: self.head_offset = offset; dequeue returns Ok, the
\* consumer thread counts it and leaves its loop at count == total
C_StoreHeadOffset ==
    /\ status = "open" /\ cons.pc = "st_off"
    /\ head_offset' = cons.h_off
    /\ cons' = [cons EXCEPT !.count = cons.count + 1,
                            !.pc = IF cons.count + 1 = NRecords
                                   THEN "done" ELSE "e_aid"]
    /\ obs' = [obs EXCEPT !.early = @ \/ cons.frame \notin obs.frames]
    /\ UNCHANGED <<index_file, arenas, head_aid, q_head, cache, status>>
    /\ ConsumerOnly

\* flip_head_page_to: self.cache.pop(&aid) and Rc::try_unwrap
C_FlipCachePop ==
    /\ status = "open" /\ cons.pc = "h_pop"
    /\ cache' = CachePop(cache, cons.aid)
    /\ cons' = [cons EXCEPT !.pc =
                  IF /\ CacheHas(cache, cons.aid)
                     /\ UniquelyOwned(Self, CacheGet(cache, cons.aid))
                  THEN "h_qhead" ELSE "h_load"]
    /\ UNCHANGED <<index_file, arenas, head_aid, head_offset, q_head, status,
                   obs>>
    /\ ConsumerOnly

\* flip_head_page_to: self.load_arena(aid)?; Err(Exist) for a missing file
C_FlipLoadArena ==
    /\ status = "open" /\ cons.pc = "h_load"
    /\ IF cons.aid \in DOMAIN arenas
       THEN /\ cons' = [cons EXCEPT !.pc = "h_qhead"]
            /\ status' = status
       ELSE IF cons.must
            THEN /\ cons' = [cons EXCEPT !.pc = "panic"]
                 /\ status' = "panicked"
            ELSE /\ cons' = [cons EXCEPT !.pc = cons.ret]
                 /\ status' = status
    /\ UNCHANGED <<index_file, arenas, head_aid, head_offset, q_head, cache,
                   obs>>
    /\ ConsumerOnly

\* set_head: self.q_head = Rc::new(...)
C_FlipSetQHead ==
    /\ status = "open" /\ cons.pc = "h_qhead"
    /\ q_head' = Handle(cons.aid, "head")
    /\ cons' = [cons EXCEPT !.pc = "h_aid"]
    /\ UNCHANGED <<index_file, arenas, head_aid, head_offset, cache, status,
                   obs>>
    /\ ConsumerOnly

\* set_head: self.head_aid = id; flip_head_page_to returns Ok
C_FlipSetHeadAid ==
    /\ status = "open" /\ cons.pc = "h_aid"
    /\ head_aid' = cons.aid
    /\ cons' = [cons EXCEPT !.pc = cons.ret]
    /\ UNCHANGED <<index_file, arenas, head_offset, q_head, cache, status, obs>>
    /\ ConsumerOnly

Consumer ==
    \/ C_IsEmptyAid
    \/ C_IsEmptyOffset
    \/ C_ReadLengthBegin
    \/ C_ReadLengthWord
    \/ C_SetHeadOffset
    \/ C_Advance
    \/ C_IndexHeadAid
    \/ C_IndexHeadOffset
    \/ C_StoreHeadAid
    \/ C_StoreHeadOffset
    \/ C_FlipCachePop
    \/ C_FlipLoadArena
    \/ C_FlipSetQHead
    \/ C_FlipSetHeadAid

NextSPSC == Producer \/ Consumer

SpecSPSC == InitSPSC /\ [][NextSPSC]_vars

\* Both threads keep being scheduled
FairSPSC == SpecSPSC /\ WF_vars(Producer) /\ WF_vars(Consumer)

\* C9: in every interleaving of the producer's push steps and the consumer's
\* dequeue steps the consumer never reads a length word the producer has not
\* written, and a dequeue returns Ok only for a frame whose length word and
\* payload bytes were completely written.
C9_ReadsOnlyCommitted == ~obs.unwritten /\ ~obs.early

\* C10: under fair scheduling of both threads the consumer eventually counts
\* NRecords successful dequeues and leaves its loop, nothing panics, it never
\* counts more than NRecords, and once both threads are done the head pair
\* equals the tail pair.
C10_Completion ==
    /\ <>(cons.pc = "done")
    /\ [](status # "panicked")
    /\ [](cons.count <= NRecords)
    /\ []((cons.pc = "done" /\ prod.pc = "done") => Empty)

\* ------------------------------------------------- SPSC: who writes what
\* The head pair (words 0, 1) and the tail pair (words 2, 3) of index.dat
HeadPair(file) == Slice(file, 0, 16)
TailPair(file) == Slice(file, 16, 32)

\* C11 as stated: no step of push writes a head field or a head index word,
\* and no step of dequeue writes a tail field, a tail index word or any
\* other state outside head_aid, head_offset, q_head and the head pair of
\* the index (so neither the cache nor an arena file).
C11_SharingDiscipline ==
    [][ /\ Producer => /\ UNCHANGED <<head_aid, head_offset, q_head>>
                       /\ HeadPair(index_file') = HeadPair(index_file)
        /\ Consumer => /\ UNCHANGED <<tail_aid, tail_offset, q_tail>>
                       /\ TailPair(index_file') = TailPair(index_file)
                       /\ UNCHANGED <<cache, arenas, dir>> ]_vars

\* C11 amended: as above, except that the consumer also mutates the cache:
\* the step cache.pop(&aid) of flip_head_page_to removes the entry of the
\* arena the head flips to, and no other step of dequeue changes the cache.
C11_SharingDisciplineAmended ==
    [][ /\ Producer => /\ UNCHANGED <<head_aid, head_offset, q_head>>
                       /\ HeadPair(index_file') = HeadPair(index_file)
        /\ Consumer => /\ UNCHANGED <<tail_aid, tail_offset, q_tail>>
                       /\ TailPair(index_file') = TailPair(index_file)
                       /\ UNCHANGED <<arenas, dir>>
                       /\ cache' = IF cons.pc = "h_pop"
                                   THEN SelectSeq(cache,
                                            LAMBDA h : h.aid # cons.aid)
                                   ELSE cache ]_vars

\* Both threads have completed an operation, the producer has rolled the
\* tail over, and the consumer has removed a cache entry the producer put
\* (nothing was evicted: at most CACHE_CAPACITY entries were ever put).
C11_Witness ==
    /\ prod.sent >= 1 /\ cons.count >= 1
    /\ tail_aid <= CACHE_CAPACITY
    /\ Len(cache) < tail_aid
    /\ index_file # Zeros(INDEX_FILE_SIZE)

\* ------------------------------------------------------ shrink and frames
\* C12: after the queue is dropped the directory holds no arena_<N>.dat with
\* N < head_aid, and when head and tail were in the same arena it holds
\* exactly that arena file and index.dat.
C12_ShrinkOnDrop ==
    status = "closed" =>
        /\ \A a \in DOMAIN arenas : a >= at_drop[1]
        /\ at_drop[1] = at_drop[3] =>
              DOMAIN arenas = {at_drop[1]} /\ index_file # <<>>

\* -------------------------------------------------------- rollover runs
\* A rollover run pushes records of one size S into a freshly reset queue
\* and pops them: the sizes of a frame that fits twice, fits once with room
\* to spare, fills an arena, straddles two arenas and straddles three.
RollSizes == {0, 1, ArenaSize - 8, ArenaSize - 6, ArenaSize + 2}

RollPush(S) ==
    /\ \A i \in 1..Len(pushed) : Len(pushed[i]) = S
    /\ PushN(Payload(S, 1), MaxRoll)

NextRoll ==
    \/ \E S \in RollSizes : RollPush(S)
    \/ Pop

SpecRoll == Init /\ [][NextRoll]_vars

\* ceil(a / b)
CeilDiv(a, b) == (a + b - 1) \div b

\* The arena counts K for which the records pushed so far, all of S bytes and
\* none popped, are the ceil((arena_size * K) / (S + 8)) records of a run
RollK ==
    IF pushed = <<>> \/ consumed # 0 \/ last.op # "push" THEN {}
    ELSE {K \in 1..(4 * MaxRoll) :
            Len(pushed) = CeilDiv(ArenaSize * K, Len(pushed[1]) + 8)}

\* C13 as stated: pushing ceil((arena_size * K) / (S + 8)) records of S
\* bytes into a freshly reset queue produces exactly the K arena files
\* arena_0 .. arena_{K-1}, and popping then returns all of the records.
C13_RolloverCount ==
    \A K \in RollK :
        /\ DOMAIN arenas = 0..(K - 1)
        /\ Drain(Self, Len(pushed) + 1) = Remaining

\* C13 amended: those records take at least arena_size * K bytes, so the
\* tail is in arena K or later and the files are exactly arena_0 ..
\* arena_<tail_aid>, at least K + 1 of them; popping returns all records.
C13_RolloverCountAmended ==
    \A K \in RollK :
        /\ tail_aid >= K
        /\ DOMAIN arenas = 0..tail_aid
        /\ Drain(Self, Len(pushed) + 1) = Remaining

\* A run of at least three records for at least two arenas was pushed
C13_Witness ==
    /\ Len(pushed) >= 3
    /\ \E K \in RollK : K >= 2 /\ Cardinality(DOMAIN arenas) >= K + 1

\* ------------------------------------------------------ frame placement
\* Position of the length word of a frame pushed at tail t
WordPos(t) == IF t[2] + 8 <= ArenaSize THEN t ELSE <<t[1] + 1, 0>>

\* Where a frame of L payload bytes pushed at tail t ends: 8 + L bytes
\* after the position of its length word
FrameEnd(t, L) ==
    LET w == WordPos(t)
        P == w[1] * ArenaSize + w[2] + 8 + L
    IN  <<P \div ArenaSize, P % ArenaSize>>

\* The tail pair t of a fresh queue followed by the ends of the frames of
\* `pushed` from the k-th on
RECURSIVE TailsFrom(_, _)
TailsFrom(t, k) ==
    <<t>> \o (IF k > Len(pushed) THEN <<>>
              ELSE TailsFrom(FrameEnd(t, Len(pushed[k])), k + 1))

\* Tails[k] is the tail pair before the k-th push, Tails[k + 1] after it
Tails == TailsFrom(<<0, 0>>, 1)

Min(a, b) == IF a <= b THEN a ELSE b

\* C14: the length word of every written frame lies inside one arena; when
\* fewer than 8 bytes were left at the tail, it is at offset 0 of the next
\* arena and the payload starts at offset 8 there; and a reader whose head is
\* at the start of such a frame reads that word at offset 0 of the next arena
\* and goes on at offset 8.
C14_LengthWordWhole ==
    LET tails == Tails
    IN  /\ \A k \in 1..Len(pushed) :
              LET t == tails[k]
                  w == WordPos(t)
                  b == pushed[k]
                  n == Min(Len(b), ArenaSize - 8)
              IN  /\ w[1] \in DOMAIN arenas
                  /\ w[2] + 8 <= ArenaSize
                  /\ Slice(arenas[w[1]], w[2], w[2] + 8)
                        = transform_u64_to_array_of_u8(Len(b))
                  /\ ArenaSize - t[2] < 8 =>
                        /\ w = <<t[1] + 1, 0>>
                        /\ Slice(arenas[t[1] + 1], 8, 8 + n) = Slice(b, 0, n)
        /\ ( /\ status = "open"
             /\ consumed < Len(pushed)
             /\ ArenaSize - head_offset < 8
             /\ <<head_aid, head_offset>> = tails[consumed + 1] ) =>
              LET rl == read_length(Self)
              IN  /\ rl.some
                  /\ rl.length = Len(pushed[consumed + 1])
                  /\ rl.s.q_head.aid = head_aid + 1
                  /\ <<rl.s.head_aid, rl.s.head_offset>> = <<head_aid + 1, 8>>

\* A record whose frame started with fewer than 8 bytes left in the arena
\* was pushed after another one and was popped with its bytes
C14_Witness ==
    /\ last.op = "pop" /\ last.res = "Ok"
    /\ consumed >= 2 /\ consumed <= Len(pushed)
    /\ ArenaSize - Tails[consumed][2] < 8
    /\ Len(last.data) > 0
    /\ last.data = pushed[consumed]

\* C15: a push of L bytes at tail (a, o) writes the length word at
\* [o1, o1 + 8) of arena a1, where (a1, o1) is (a, o) if o + 8 <= ArenaSize
\* and (a + 1, 0) otherwise, writes the payload at the next L positions of
\* the linear stream from P = a1 * ArenaSize + o1 + 8, and leaves the tail at
\* ((P + L) div ArenaSize, (P + L) mod ArenaSize) in an arena whose file
\* exists.
C15_TailPlacement ==
    [][ Len(pushed') = Len(pushed) + 1 =>
          LET b == pushed'[Len(pushed')]
              L == Len(b)
              w == WordPos(<<tail_aid, tail_offset>>)
              P == w[1] * ArenaSize + w[2] + 8
          IN  /\ status' = "open"
              /\ Slice(arenas'[w[1]], w[2], w[2] + 8)
                    = transform_u64_to_array_of_u8(L)
              /\ \A i \in 0..(L - 1) :
                    arenas'[(P + i) \div ArenaSize][((P + i) % ArenaSize) + 1]
                       = b[i + 1]
              /\ tail_aid' = (P + L) \div ArenaSize
              /\ tail_offset' = (P + L) % ArenaSize
              /\ tail_aid' \in DOMAIN arenas' ]_vars

\* A payload longer than an arena was pushed after another record and its
\* frame ended exactly at the end of an arena
C15_Witness ==
    /\ last.op = "push" /\ last.res = "Ok"
    /\ Len(pushed) >= 2
    /\ Len(pushed[Len(pushed)]) > ArenaSize
    /\ tail_offset = 0
    /\ tail_aid \in DOMAIN arenas

\* C16: after every public operation that completes (open, push, peek, pop,
\* dequeue, shrink) both offsets are inside an arena:
\* 0 <= head_offset < ArenaSize and 0 <= tail_offset < ArenaSize.
C16_OffsetBounds ==
    status = "open" =>
        /\ 0 <= head_offset /\ head_offset < ArenaSize
        /\ 0 <= tail_offset /\ tail_offset < ArenaSize

\* A dequeue consumed a record whose payload spans more than two arenas
C16_Witness ==
    /\ status = "open"
    /\ last.op = "dequeue" /\ last.res = "Ok"
    /\ consumed >= 1 /\ consumed <= Len(pushed)
    /\ Len(pushed[consumed]) > 2 * ArenaSize

\* C17: after every public operation of a sequence of push, peek, pop and
\* dequeue the head has not passed the tail: tail_aid >= head_aid, and
\* tail_offset >= head_offset when the two are in the same arena.
C17_HeadNotPastTail ==
    status = "open" =>
        \/ tail_aid > head_aid
        \/ tail_aid = head_aid /\ tail_offset >= head_offset

\* ------------------------------------------------------------ the index
\* The 32 bytes index.dat has when it records the cursors h and t
IndexBytes(h, t) ==
    transform_u64_to_array_of_u8(h[1]) \o transform_u64_to_array_of_u8(h[2])
    \o transform_u64_to_array_of_u8(t[1]) \o transform_u64_to_array_of_u8(t[2])

\* C18: after push returns, words 2 and 3 of index.dat are (tail_aid,
\* tail_offset); after pop or dequeue returns Ok, words 0 and 1 are
\* (head_aid, head_offset); and between public operations the 32 bytes of
\* index.dat are the little-endian words of the four cursors.
C18_IndexMirrorsCursors ==
    status = "open" =>
        /\ last.op = "push" =>
              get_tail_tuple(index_file) = <<tail_aid, tail_offset>>
        /\ (last.op \in {"pop", "dequeue"} /\ last.res = "Ok") =>
              get_head_tuple(index_file) = <<head_aid, head_offset>>
        /\ index_file = IndexBytes(<<head_aid, head_offset>>,
                                   <<tail_aid, tail_offset>>)

\* A record was consumed and the four cursors are pairwise different from
\* what a fresh index holds
C18_Witness ==
    /\ status = "open"
    /\ last.op \in {"pop", "dequeue"} /\ last.res = "Ok"
    /\ head_aid >= 1 /\ head_offset >= 1
    /\ tail_aid > head_aid /\ tail_offset >= 1
    /\ tail_offset # head_offset

\* C19: with every index word write a step of its own, at every instant the
\* tail pair recorded in index.dat is the end of a completely written frame
\* (or the start of the queue), and the recorded head pair is the start of a
\* frame, i.e. the end of the frame before it.
C19_IndexLags ==
    /\ get_tail_tuple(index_file) \in obs.ends
    /\ get_head_tuple(index_file) \in obs.ends

\* --------------------------------------------- longer sequential runs
\* Sequential use of the direct API with fewer payload lengths, which leaves
\* room for one more push per behaviour
LensDeep == {0, ArenaSize - 6, 2 * ArenaSize + 3}

PayloadsDeep == {Payload(len, b) : len \in LensDeep, b \in Fill}

PushDeep(bytes) == PushN(bytes, MaxPushDeep)

NextDeep ==
    \/ \E b \in PayloadsDeep : PushDeep(b)
    \/ Pop
    \/ Peek
    \/ Dequeue

SpecDeep == Init /\ [][NextDeep]_vars

\* ------------------------------------------------------ cursor movement
\* Lexicographic order of (aid, offset) pairs
Before(p, q) == p[1] < q[1] \/ (p[1] = q[1] /\ p[2] < q[2])

\* C20: every push strictly increases the tail pair, every successful pop
\* or dequeue strictly increases the head pair, peek leaves both unchanged,
\* head_aid and tail_aid never decrease, and the tail moves one arena at a
\* time, so that the arena files are arena_0 .. arena_<tail_aid>.
C20_CursorsForward ==
    [][ status' = "open" =>
          /\ Len(pushed') = Len(pushed) + 1 =>
                /\ Before(<<tail_aid, tail_offset>>, <<tail_aid', tail_offset'>>)
                /\ UNCHANGED <<head_aid, head_offset>>
          /\ consumed' = consumed + 1 =>
                /\ Before(<<head_aid, head_offset>>, <<head_aid', head_offset'>>)
                /\ UNCHANGED <<tail_aid, tail_offset>>
          /\ Peek => UNCHANGED <<head_aid, head_offset, tail_aid, tail_offset>>
          /\ head_aid' >= head_aid
          /\ tail_aid' >= tail_aid
          /\ DOMAIN arenas' = 0..tail_aid' ]_vars

\* --------------------------------------------------------- arena cache
\* Queues opened with BigQueue::with_config and a Config whose
\* max_arenas_in_mem is any positive value up to MaxInMem, then filled with
\* equal-sized records and popped
Configs == {Config(m) : m \in 1..MaxInMem}

InitConf == InitWith({PlainDir}, Configs)

SpecConf == InitConf /\ [][NextRoll]_vars

Keys(c) == [i \in 1..Len(c) |-> c[i].aid]

Take(q, n) == SubSeq(q, 1, IF Len(q) < n THEN Len(q) ELSE n)

\* the arenas a push rolled the tail off, most recent first
RolledOff(from, to) == [i \in 1..(to - from) |-> to - i]

\* C21: the arena cache never holds more than config.max_arenas_in_mem
\* entries, whatever positive max_arenas_in_mem the queue was opened with.
C21_BoundedCache == Len(cache) <= config.max_arenas_in_mem

\* The part of C21 that does not depend on the configured value: the cache
\* holds at most CACHE_CAPACITY entries, and a push keeps the most recently
\* inserted CACHE_CAPACITY of the rolled-off tail arenas and the old entries.
C21_EvictsLru ==
    [][ /\ Len(cache') <= CACHE_CAPACITY
        /\ Len(pushed') = Len(pushed) + 1 =>
              Keys(cache') = Take(RolledOff(tail_aid, tail_aid') \o Keys(cache),
                                  CACHE_CAPACITY) ]_vars

LiveExist(c) == \A n \in c[1]..c[3] : n \in DOMAIN arenas

RECURSIVE TailAfter(_, _, _)
TailAfter(s, bytes, k) ==
    IF k = 0 THEN <<s.tail_aid, s.tail_offset>>
    ELSE TailAfter(push(s, bytes).s, bytes, k - 1)

\* the tail pair after the k-th enqueue of the producer of the channel
SpscTail(k) ==
    TailAfter(with_config(EmptyDir(SpscDir), TRUE, Config_new), prod.bytes, k)

\* the number of the push the producer is in, or has last returned from
SpscPushNo == IF prod.pc \in {"idle", "done"} THEN prod.sent ELSE prod.sent + 1

\* the end of the last completely written frame
LastEnd == CHOOSE p \in obs.ends : \A q \in obs.ends : q = p \/ Before(q, p)

HeadPos == <<head_aid, head_offset>>

C24_NotPastWritten == ~Before(LastEnd, HeadPos)

C24_NotPastPush == ~Before(SpscTail(SpscPushNo), HeadPos)

C24_HeadAtFrameEnd ==
    (cons.pc \in {"e_aid", "e_off", "done"} /\ cons.count >= 1) =>
        HeadPos = SpscTail(cons.count)

\* C24: in every interleaving of one producer and one consumer the head
\* pair never passes the end of the last completely written frame nor the
\* tail pair the producer has when its current push returns, and after the
\* k-th successful dequeue the head pair is the tail pair after the k-th
\* push.
C24_SpscCursorOrder ==
    /\ C24_NotPastWritten
    /\ C24_NotPastPush
    /\ C24_HeadAtFrameEnd

\* ------------------------------------------------------------ index pairs
\* Values written to the index: around the byte boundaries of the
\* little-endian word, up to the largest value the codec of the model
\* encodes exactly
IndexVals == {0, 255, 256, 65536, 16777215, Huge - 1}

\* set_head_index(aid, offset) and set_tail_index(aid, offset) with any of
\* these values, in any order, on a freshly created index
SetHeadIndex(aid, offset) ==
    /\ status = "open"
    /\ LET s == set_head_index(Self, aid, offset)
       IN  /\ Becomes(s)
           /\ last' = Last("set_head_index", Result("Ok", <<>>, s))
    /\ UNCHANGED <<pushed, consumed, at_drop, svars>>

SetTailIndex(aid, offset) ==
    /\ status = "open"
    /\ LET s == set_tail_index(Self, aid, offset)
       IN  /\ Becomes(s)
           /\ last' = Last("set_tail_index", Result("Ok", <<>>, s))
    /\ UNCHANGED <<pushed, consumed, at_drop, svars>>

NextIndex ==
    \/ \E a, o \in IndexVals : SetHeadIndex(a, o)
    \/ \E a, o \in IndexVals : SetTailIndex(a, o)

SpecIndex == Init /\ [][NextIndex]_vars

\* C25: after set_head(a, o) and set_tail(a2, o2) in any order
\* get_head_tuple() is (a, o) and get_tail_tuple() is (a2, o2); set_head
\* changes only words 0 and 1 and set_tail only words 2 and 3 of the 32
\* bytes of the index; a freshly created index reads (0, 0) for both pairs.
C25_IndexRoundTrip ==
    /\ [](/\ Len(index_file) = INDEX_FILE_SIZE
          /\ get_head_tuple(index_file) = <<head_aid, head_offset>>
          /\ get_tail_tuple(index_file) = <<tail_aid, tail_offset>>)
    /\ [][ /\ last'.op = "set_head_index" =>
                /\ TailPair(index_file') = TailPair(index_file)
                /\ UNCHANGED <<tail_aid, tail_offset>>
           /\ last'.op = "set_tail_index" =>
                /\ HeadPair(index_file') = HeadPair(index_file)
                /\ UNCHANGED <<head_aid, head_offset>> ]_vars
    /\ get_head_tuple(Index_new(<<>>)) = <<0, 0>>
    /\ get_tail_tuple(Index_new(<<>>)) = <<0, 0>>

\* a head pair was set after a tail pair, all four values different and
\* longer than one byte
C25_Witness ==
    /\ last.op = "set_head_index"
    /\ <<head_aid, head_offset>> = <<Huge - 1, 256>>
    /\ <<tail_aid, tail_offset>> = <<65536, 16777215>>
    /\ get_head_tuple(index_file) = <<Huge - 1, 256>>
    /\ get_tail_tuple(index_file) = <<65536, 16777215>>

====
